---- MODULE Spec2Model ----
(***************************************************************************)
(* The character action state machine of ThreeScene                         *)
(* (src/src/three/ThreeScene.ts): the four mode flags, the action table,   *)
(* the current action, the setTimeout callbacks that revert the transient  *)
(* modes, the frame loop and the asset load.                               *)
(*                                                                         *)
(* Time is counted in half seconds.  A pending setTimeout callback is a    *)
(* record in `timers`, kept in the order the event loop will run them;     *)
(* `remaining` is the time left before the callback may run.               *)
(***************************************************************************)
EXTENDS Integers, Sequences, FiniteSets, TLC

VARIABLES
    keys,               \* the codes k in MoveKeys with this.keys[k] true
    mixer,              \* this.mixer !== null (the model is set with it)
    actions,            \* the keys of this.actions, in insertion order
    currentActionName,  \* this.currentActionName (Null for null)
    isSitting,
    isAnimating,
    isJumping,
    isAttacking,
    jumpRemaining,      \* jumpStartTime + jumpTotalDuration - performance.now()
    timers,             \* the pending setTimeout callbacks
    loadState,          \* the GLTFLoader request: pending / loaded / failed
    frame,              \* the animation frame request: scheduled / cancelled
    characterBody,      \* CharacterController.characterBody (NoBody for null)
    lastAngle,          \* CharacterController.lastAngle, in degrees
    camera,             \* this.camera: its position and its rotation
    last                \* what the most recent step did (observation only)

vars == <<keys, mixer, actions, currentActionName, isSitting, isAnimating,
          isJumping, isAttacking, jumpRemaining, timers, loadState, frame,
          characterBody, lastAngle, camera, last>>

flags == <<isSitting, isAnimating, isJumping, isAttacking>>

\* the fields of ThreeScene the state machine owns
sceneVars == <<keys, mixer, actions, currentActionName, isSitting, isAnimating,
               isJumping, isAttacking, jumpRemaining, timers, loadState, frame>>

\* the body of the character, the heading the controller keeps and the camera
bodyVars == <<characterBody, lastAngle, camera>>

---------------------------------------------------------------------------
(* Bounds of the model *)

\* pending setTimeout callbacks
MaxTimers == 2
\* length of the 'PartialIdleJump' sub-clip of the asset, in half seconds
JumpClipUnits == 2
\* length of the 'Attack' clip of the asset, in half seconds
AttackClipUnits == 1
\* objects a click's ray may hit
MaxHits == 2

---------------------------------------------------------------------------
(* Program constants *)

Null == "null"
\* characterBody: CANNON.Body | null = null
NoBody == [null |-> TRUE]

\* playSitAnimation('Sit down', 2.0, true): 2.0 s in half seconds
SitDownUnits == 4
\* playSitAnimation('Sit up', 1.0, false): 1.0 s in half seconds
SitUpUnits == 2
\* jumpAction.getClip().duration - 0.5: 0.5 s in half seconds
JumpTrimUnits == 1
\* this.characterBody.velocity.y = 10
JumpSpeed == 10
\* const speed = 15
Speed == 15
\* if (speedSq < 0.001): the threshold is one part in 1000
SpeedSqPerMille == 1000
\* Math.PI / 2, in degrees
QuarterTurn == 90
\* this.camera.position.z = pos.z + 5
CameraDistance == 5
\* this.camera.position.set(0, 2, 5); nothing sets the camera's rotation
CameraStart == [x |-> 0, y |-> 2, z |-> 5, rotation |-> <<0, 0, 0>>]
\* the velocity components of a body are counted in hundredths of a unit
Hundredths == 100

\* the movement keys update() and isMoving() read
MoveKeys == {"KeyW", "KeyA", "KeyS", "KeyD"}
\* the codes the model's keyboard can send
KeyCodes == {"KeyW", "KeyD", "KeyQ", "Space", "KeyE"}

\* the clips of the asset, in the order the loader lists them
AllClips == <<"Idle", "Walk", "Walk Start", "Walk stop", "Sit down", "Sit up",
              "Idle Jump", "Attack">>

\* the named objects of the scene a ray can hit
SceneObjects == {"ResumeCube", "GithubCube"}

\* AllClips without the clips at the indices in S
Keep(S) ==
    LET idx == {i \in 1..Len(AllClips) : i \notin S}
    IN  [j \in 1..Cardinality(idx) |->
            AllClips[CHOOSE i \in idx : Cardinality({k \in idx : k < i}) = j - 1]]

\* the clips in the opposite order
Reversed(s) == [i \in 1..Len(s) |-> s[Len(s) + 1 - i]]

\* the clip lists a load may deliver: every clip, every clip but one, no clip,
\* and every clip in the opposite order
ClipLists ==
    {Keep({})} \cup {Keep({i}) : i \in 1..Len(AllClips)} \cup {<< >>}
        \cup {Reversed(AllClips)}

---------------------------------------------------------------------------
(* Helpers *)

\* this.actions[name] is truthy
HasAction(acts, name) == \E i \in DOMAIN acts : acts[i] = name

\* the names playAnimation and the handlers look up in the action table
AnimationNames ==
    {AllClips[i] : i \in DOMAIN AllClips} \cup {"PartialIdleJump"}

Max(a, b) == IF a >= b THEN a ELSE b

\* setTimeout(cb, delay): the callback runs after every callback whose
\* deadline is not later
InsertTimer(ts, t) ==
    LET n == Cardinality({i \in DOMAIN ts : ts[i].remaining <= t.remaining})
    IN  SubSeq(ts, 1, n) \o <<t>> \o SubSeq(ts, n + 1, Len(ts))

Timer(kind, willSit, delay) ==
    [kind |-> kind, willSit |-> willSit, remaining |-> Max(delay, 0)]

\* a pending timer queue with room for one more callback
CanSchedule == Len(timers) < MaxTimers

\* the fade-out of the current action: if (this.currentActionName &&
\* this.actions[this.currentActionName]) oldAction.fadeOut(0.3)
FadeOut(acts, cur) ==
    IF cur # Null /\ HasAction(acts, cur) THEN <<cur>> ELSE << >>

\* playAnimation leaving every action it starts on LoopRepeat
LoopOfAlwaysRepeat(name) == "LoopRepeat"

\* the loop mode playAnimation gives the action it starts: LoopOnce with
\* clampWhenFinished, or LoopRepeat without
LoopOf(name) == IF name = "Sit down" THEN "LoopOnce+clamp" ELSE "LoopRepeat"

\* playAnimation fading the current action out before it looks the name up
PlayAnimationFadesFirst(mx, acts, st, name) ==
    IF ~mx THEN st
    ELSE IF ~HasAction(acts, name)
         THEN [st EXCEPT !.faded = st.faded \o FadeOut(acts, st.cur)]
    ELSE [cur |-> name,
          played |-> Append(st.played, name),
          faded |-> st.faded \o FadeOut(acts, st.cur),
          loops |-> Append(st.loops, LoopOf(name))]

\* playAnimation(name) on st = [cur, played, faded, loops]: the current action
\* name, the clips started, the clips faded out and the loop mode given to
\* each started clip so far in this step
PlayAnimation(mx, acts, st, name) ==
    IF ~mx THEN st
    ELSE IF ~HasAction(acts, name) THEN st
    ELSE [cur |-> name,
          played |-> Append(st.played, name),
          faded |-> st.faded \o FadeOut(acts, st.cur),
          loops |-> Append(st.loops, LoopOf(name))]

St == [cur |-> currentActionName, played |-> << >>, faded |-> << >>,
       loops |-> << >>]

\* the record of a step: the operation, whether it passed its guards, the
\* clips it started, the timers it scheduled, its calls of
\* CharacterController.jump() and of options.onObjectInteract, the clips it
\* faded out, the hit list of a click, the calls a frame tick made and the
\* loop mode of each clip it started
Observe(op, accepted, played, scheduled, jumpCalls) ==
    [op |-> op, accepted |-> accepted, played |-> played,
     scheduled |-> scheduled, jumpCalls |-> jumpCalls, interact |-> << >>,
     faded |-> << >>, hits |-> << >>, calls |-> << >>,
     loops |-> [i \in DOMAIN played |-> "LoopOnce+clamp"]]

\* the record of a step that played and faded what st says
ObserveSt(op, accepted, st, scheduled) ==
    [Observe(op, accepted, st.played, scheduled, 0) EXCEPT
        !.faded = st.faded, !.loops = st.loops]

---------------------------------------------------------------------------
(* Initial state: after App's effect has constructed the scene (init() has *)
(* registered the listeners and started the load) and called start(),      *)
(* whose first animate() finds no model, no body and no action and         *)
(* requests the next frame                                                 *)

SceneInit ==
    /\ keys = {}
    /\ mixer = FALSE
    /\ actions = << >>
    /\ currentActionName = Null
    /\ isSitting = FALSE
    /\ isAnimating = FALSE
    /\ isJumping = FALSE
    /\ isAttacking = FALSE
    /\ jumpRemaining = 0
    /\ timers = << >>
    /\ loadState = "pending"
    /\ frame = "scheduled"
    /\ last = Observe("init", FALSE, << >>, 0, 0)

\* no body before the load; Spec follows the scene and records its calls of
\* the controller, CtlSpec follows the controller's body
Init ==
    /\ SceneInit
    /\ characterBody = NoBody
    /\ lastAngle = 0
    /\ camera = CameraStart

---------------------------------------------------------------------------
(* Sit / stand *)

\* handleSitToggle without its isJumping check
SitBlockedNoJumpCheck == isAnimating \/ isAttacking
\* handleSitToggle without its isAnimating check
SitBlockedNoAnimCheck == isJumping \/ isAttacking
\* the guard of handleSitToggle
SitBlocked == isAnimating \/ isJumping \/ isAttacking

\* playSitAnimation setting isSitting at once instead of in the callback
PlaySitAnimationSetsSittingNow(clipName, duration, willSit) ==
    LET st == PlayAnimation(mixer, actions, St, clipName)
    IN  /\ CanSchedule
        /\ isAnimating' = TRUE
        /\ isSitting' = willSit
        /\ currentActionName' = st.cur
        /\ timers' = InsertTimer(timers,
                        Timer("sit", willSit, duration))
        /\ last' = ObserveSt("KeyQ", TRUE, st, 1)
        /\ UNCHANGED <<isJumping, isAttacking, jumpRemaining>>

\* playSitAnimation(clipName, durationSeconds, willSit)
PlaySitAnimation(clipName, duration, willSit) ==
    LET st == PlayAnimation(mixer, actions, St, clipName)
    IN  /\ CanSchedule
        /\ isAnimating' = TRUE
        /\ currentActionName' = st.cur
        /\ timers' = InsertTimer(timers,
                        Timer("sit", willSit, duration))
        /\ last' = ObserveSt("KeyQ", TRUE, st, 1)
        /\ UNCHANGED <<isSitting, isJumping, isAttacking, jumpRemaining>>

HandleSitToggle ==
    IF SitBlocked
    THEN /\ last' = Observe("KeyQ", FALSE, << >>, 0, 0)
         /\ UNCHANGED <<flags, currentActionName, jumpRemaining, timers>>
    ELSE IF ~isSitting
         THEN PlaySitAnimation("Sit down", SitDownUnits, TRUE)
         ELSE PlaySitAnimation("Sit up", SitUpUnits, FALSE)

\* the callback playing Idle whatever willSit is
SitTimerCallbackAlwaysIdle(t) ==
    LET st == IF HasAction(actions, "Idle")
              THEN PlayAnimation(mixer, actions, St, "Idle")
              ELSE St
    IN  /\ isSitting' = t.willSit
        /\ isAnimating' = FALSE
        /\ currentActionName' = st.cur
        /\ last' = ObserveSt("sitTimer", TRUE, st, 0)
        /\ UNCHANGED <<isJumping, isAttacking, jumpRemaining>>

\* the callback never playing Idle
SitTimerCallbackNoIdle(t) ==
    /\ isSitting' = t.willSit
    /\ isAnimating' = FALSE
    /\ last' = Observe("sitTimer", TRUE, << >>, 0, 0)
    /\ UNCHANGED <<currentActionName, isJumping, isAttacking, jumpRemaining>>

\* the callback playSitAnimation hands to setTimeout
SitTimerCallback(t) ==
    LET st == IF ~t.willSit /\ HasAction(actions, "Idle")
              THEN PlayAnimation(mixer, actions, St, "Idle")
              ELSE St
    IN  /\ isSitting' = t.willSit
        /\ isAnimating' = FALSE
        /\ currentActionName' = st.cur
        /\ last' = ObserveSt("sitTimer", TRUE, st, 0)
        /\ UNCHANGED <<isJumping, isAttacking, jumpRemaining>>

---------------------------------------------------------------------------
(* Jump *)

\* handleJump without its isAttacking check
JumpBlockedNoAttackCheck == isSitting \/ isJumping \/ isAnimating
\* handleJump without its isSitting check
JumpBlockedNoSitCheck == isJumping \/ isAttacking \/ isAnimating
\* the four early returns of handleJump
JumpBlocked == isSitting \/ isJumping \/ isAttacking \/ isAnimating

HandleJump ==
    IF JumpBlocked \/ ~HasAction(actions, "PartialIdleJump")
    THEN /\ last' = Observe("Space", FALSE, << >>, 0, 0)
         /\ UNCHANGED <<flags, currentActionName, jumpRemaining, timers>>
    ELSE /\ CanSchedule
         /\ isJumping' = TRUE
         /\ currentActionName' = "PartialIdleJump"
         /\ jumpRemaining' = Max(JumpClipUnits - JumpTrimUnits, 0)
         /\ timers' = InsertTimer(timers,
                         Timer("jump", FALSE, JumpClipUnits - JumpTrimUnits))
         /\ last' = [Observe("Space", TRUE, <<"PartialIdleJump">>, 1, 0) EXCEPT
                        !.faded = FadeOut(actions, currentActionName)]
         /\ UNCHANGED <<isSitting, isAnimating, isAttacking>>

\* the callback handleJump hands to setTimeout
JumpTimerCallback(t) ==
    LET st == IF HasAction(actions, "Idle")
              THEN PlayAnimation(mixer, actions, St, "Idle")
              ELSE St
    IN  /\ isJumping' = FALSE
        /\ currentActionName' = st.cur
        /\ last' = ObserveSt("jumpTimer", TRUE, st, 0)
        /\ UNCHANGED <<isSitting, isAnimating, isAttacking, jumpRemaining>>

---------------------------------------------------------------------------
(* Attack *)

\* handleAttack without its isAnimating check
AttackBlockedNoAnimCheck == isSitting \/ isJumping \/ isAttacking
\* the four early returns of handleAttack
AttackBlocked == isSitting \/ isJumping \/ isAttacking \/ isAnimating

HandleAttack ==
    IF AttackBlocked \/ ~HasAction(actions, "Attack")
    THEN /\ last' = Observe("KeyE", FALSE, << >>, 0, 0)
         /\ UNCHANGED <<flags, currentActionName, jumpRemaining, timers>>
    ELSE /\ CanSchedule
         /\ isAttacking' = TRUE
         /\ currentActionName' = "Attack"
         /\ timers' = InsertTimer(timers, Timer("attack", FALSE, AttackClipUnits))
         /\ last' = [Observe("KeyE", TRUE, <<"Attack">>, 1, 0) EXCEPT
                        !.faded = FadeOut(actions, currentActionName)]
         /\ UNCHANGED <<isSitting, isAnimating, isJumping, jumpRemaining>>

\* the callback leaving isAttacking set
AttackTimerCallbackKeepsFlag(t) ==
    LET st == IF HasAction(actions, "Idle")
              THEN PlayAnimation(mixer, actions, St, "Idle")
              ELSE St
    IN  /\ currentActionName' = st.cur
        /\ last' = ObserveSt("attackTimer", TRUE, st, 0)
        /\ UNCHANGED <<flags, jumpRemaining>>

\* the callback handleAttack hands to setTimeout
AttackTimerCallback(t) ==
    LET st == IF HasAction(actions, "Idle")
              THEN PlayAnimation(mixer, actions, St, "Idle")
              ELSE St
    IN  /\ isAttacking' = FALSE
        /\ currentActionName' = st.cur
        /\ last' = ObserveSt("attackTimer", TRUE, st, 0)
        /\ UNCHANGED <<isSitting, isAnimating, isJumping, jumpRemaining>>

---------------------------------------------------------------------------
(* Keyboard *)

OnKeyDown(code) ==
    /\ keys' = IF code \in MoveKeys THEN keys \cup {code} ELSE keys
    /\ CASE code = "KeyQ"  -> HandleSitToggle
         [] code = "Space" -> HandleJump
         [] code = "KeyE"  -> HandleAttack
         [] OTHER -> /\ last' = Observe(code, TRUE, << >>, 0, 0)
                     /\ UNCHANGED <<flags, currentActionName, jumpRemaining, timers>>
    /\ UNCHANGED <<mixer, actions, loadState, frame, bodyVars>>

OnKeyUp(code) ==
    /\ code \in keys
    /\ keys' = keys \ {code}
    /\ last' = Observe("keyup", TRUE, << >>, 0, 0)
    /\ UNCHANGED <<mixer, actions, currentActionName, flags, jumpRemaining,
                   timers, loadState, frame, bodyVars>>

---------------------------------------------------------------------------
(* Asset load *)

\* the success callback starting 'Idle' or nothing
LoadCharacterSuccessIdleOnly(clips) ==
    LET acts == IF HasAction(clips, "Idle Jump")
                THEN Append(clips, "PartialIdleJump")
                ELSE clips
        st == IF HasAction(acts, "Idle")
              THEN PlayAnimation(TRUE, acts, St, "Idle")
              ELSE St
    IN  /\ loadState = "pending"
        /\ loadState' = "loaded"
        /\ mixer' = TRUE
        /\ actions' = acts
        /\ currentActionName' = st.cur
        /\ last' = ObserveSt("load", TRUE, st, 0)
        /\ UNCHANGED <<keys, flags, jumpRemaining, timers, frame, bodyVars>>

\* the success callback of loader.load
LoadCharacterSuccess(clips) ==
    LET acts == IF HasAction(clips, "Idle Jump")
                THEN Append(clips, "PartialIdleJump")
                ELSE clips
        st == IF HasAction(acts, "Idle")
              THEN PlayAnimation(TRUE, acts, St, "Idle")
              ELSE IF Len(acts) > 0
                   THEN PlayAnimation(TRUE, acts, St, acts[1])
                   ELSE St
    IN  /\ loadState = "pending"
        /\ loadState' = "loaded"
        /\ mixer' = TRUE
        /\ actions' = acts
        /\ currentActionName' = st.cur
        /\ last' = ObserveSt("load", TRUE, st, 0)
        /\ UNCHANGED <<keys, flags, jumpRemaining, timers, frame, bodyVars>>

\* the error callback of loader.load
LoadCharacterError ==
    /\ loadState = "pending"
    /\ loadState' = "failed"
    /\ last' = Observe("loadError", TRUE, << >>, 0, 0)
    /\ UNCHANGED <<keys, mixer, actions, currentActionName, flags, jumpRemaining,
                   timers, frame, bodyVars>>

---------------------------------------------------------------------------
(* CharacterController (src/src/three/CharacterController.ts) and the body *)
(* of the character: what each method does to them                         *)

\* the horizontal velocities <<vx, vz>> the model's bodies start from, in
\* hundredths: at rest, below the threshold of computeRotationForVisual
\* (0.03, and 0.02 on both axes), just above it (0.04, and 0.03 on both axes)
\* and at the speed update() commands
HorizontalVelocities ==
    {<<0, 0>>, <<3, 0>>, <<2, -2>>, <<0, 4>>, <<-3, -3>>,
     <<Speed * Hundredths, 0>>, <<0, -Speed * Hundredths>>,
     <<-Speed * Hundredths, Speed * Hundredths>>}

\* the vertical velocities the model's bodies start from, in hundredths
VerticalVelocities == {-5 * Hundredths, 0, 5 * Hundredths}

\* the positions the model's bodies take: where createCharacterBody(0, 1, 0)
\* puts the body, and a place it has moved to
Positions == {[x |-> 0, y |-> 1, z |-> 0], [x |-> 2, y |-> 1, z |-> -3]}

\* a CANNON.Body: its velocity, its position and whether it is in a world
\* (body.world); commanded is the horizontal velocity update() wrote last
\* (none yet: zero, as the body is constructed at rest)
Bodies ==
    {[vx |-> h[1], vy |-> v, vz |-> h[2], world |-> w, position |-> p,
      commanded |-> <<0, 0>>] :
        h \in HorizontalVelocities, v \in VerticalVelocities,
        w \in BOOLEAN, p \in Positions}

\* isOnGround() always reporting ground
IsOnGroundAlways(body, hasHit) == TRUE

\* isOnGround(): hasHit is what world.raycastClosest reports for the probe
IsOnGround(body, hasHit) ==
    IF body = NoBody THEN FALSE
    ELSE IF ~body.world THEN FALSE
    ELSE hasHit

\* jump() on a body: the body after the call
JumpBody(body, hasHit) ==
    IF body = NoBody THEN body
    ELSE IF IsOnGround(body, hasHit)
         THEN [body EXCEPT !.vy = JumpSpeed * Hundredths]
    ELSE body

\* update(keys) writing a fresh vector, vertical component included
UpdateBodyZeroVertical(body, ks) ==
    IF body = NoBody THEN body
    ELSE [body EXCEPT
            !.vx = IF "KeyA" \in ks THEN -Speed * Hundredths
                   ELSE IF "KeyD" \in ks THEN Speed * Hundredths ELSE 0,
            !.vy = 0,
            !.vz = IF "KeyW" \in ks THEN -Speed * Hundredths
                   ELSE IF "KeyS" \in ks THEN Speed * Hundredths ELSE 0,
            !.commanded =
                <<IF "KeyA" \in ks THEN -Speed * Hundredths
                  ELSE IF "KeyD" \in ks THEN Speed * Hundredths ELSE 0,
                  IF "KeyW" \in ks THEN -Speed * Hundredths
                  ELSE IF "KeyS" \in ks THEN Speed * Hundredths ELSE 0>>]

\* update(keys) on a body: the body after the call; the new velocity is
\* (0, velocity.y, 0) with z set by KeyW, else KeyS, and x by KeyA, else KeyD
UpdateBody(body, ks) ==
    IF body = NoBody THEN body
    ELSE LET x == IF "KeyA" \in ks THEN -Speed * Hundredths
                  ELSE IF "KeyD" \in ks THEN Speed * Hundredths ELSE 0
             z == IF "KeyW" \in ks THEN -Speed * Hundredths
                  ELSE IF "KeyS" \in ks THEN Speed * Hundredths ELSE 0
         IN  [body EXCEPT !.vx = x, !.vz = z, !.commanded = <<x, z>>]

\* world.step(1 / 60, dt, 3) on a body of the world: gravity, damping and
\* contacts leave it with the horizontal velocity h, the vertical velocity v
\* and the position p
StepBody(body, h, v, p) ==
    IF body = NoBody THEN body
    ELSE IF ~body.world THEN body
    ELSE [body EXCEPT !.vx = h[1], !.vy = v, !.vz = h[2], !.position = p]

\* vx * vx + vz * vz, in squares of hundredths
SpeedSq(body) == body.vx * body.vx + body.vz * body.vz

\* speedSq < 0.001, which is 10 squares of hundredths
BelowEpsilon(body) ==
    SpeedSq(body) < (Hundredths * Hundredths) \div SpeedSqPerMille

\* Math.atan2(y, x) in degrees, for the directions the model's velocities
\* take: along an axis or along a diagonal
Atan2(y, x) ==
    CASE y = 0 /\ x >= 0 -> 0
      [] y = 0 /\ x < 0 -> 180
      [] y > 0 /\ x = 0 -> 90
      [] y < 0 /\ x = 0 -> -90
      [] y > 0 /\ x > 0 -> 45
      [] y > 0 /\ x < 0 -> 135
      [] y < 0 /\ x > 0 -> -45
      [] y < 0 /\ x < 0 -> -135

\* computeRotationForVisual() turning the heading back to 0 at rest
ComputeRotationResetsAtRest(body, stored) ==
    IF body = NoBody THEN [angle |-> stored, stored |-> stored]
    ELSE IF BelowEpsilon(body) THEN [angle |-> 0, stored |-> 0]
    ELSE LET angle == Atan2(body.vx, body.vz) + QuarterTurn
         IN  [angle |-> angle, stored |-> angle]

\* computeRotationForVisual() with lastAngle = stored: the angle it returns
\* and the lastAngle it leaves
ComputeRotationForVisual(body, stored) ==
    IF body = NoBody THEN [angle |-> stored, stored |-> stored]
    ELSE IF BelowEpsilon(body) THEN [angle |-> stored, stored |-> stored]
    ELSE LET angle == Atan2(body.vx, body.vz) + QuarterTurn
         IN  [angle |-> angle, stored |-> angle]

---------------------------------------------------------------------------
(* Frame loop *)

IsMoving == keys \cap MoveKeys # {}

\* the jump arc of animate(): the flag after it
JumpArc == IF isJumping /\ mixer /\ jumpRemaining = 0 THEN FALSE ELSE isJumping

\* the re-evaluation without its isJumping check
ReevaluateNoJumpCheck(jumping) ==
    IF ~isAttacking /\ ~isSitting /\ ~isAnimating
    THEN IF IsMoving
         THEN IF currentActionName # "Walk" /\ HasAction(actions, "Walk")
              THEN PlayAnimation(mixer, actions,
                       PlayAnimation(mixer, actions, St, "Walk Start"), "Walk")
              ELSE St
         ELSE IF currentActionName # "Idle" /\ HasAction(actions, "Idle")
              THEN PlayAnimation(mixer, actions,
                       PlayAnimation(mixer, actions, St, "Walk stop"), "Idle")
              ELSE St
    ELSE St

\* the Walk / Idle re-evaluation of animate(), with the jump flag as the arc left it
Reevaluate(jumping) ==
    IF ~jumping /\ ~isAttacking /\ ~isSitting /\ ~isAnimating
    THEN IF IsMoving
         THEN IF currentActionName # "Walk" /\ HasAction(actions, "Walk")
              THEN PlayAnimation(mixer, actions,
                       PlayAnimation(mixer, actions, St, "Walk Start"), "Walk")
              ELSE St
         ELSE IF currentActionName # "Idle" /\ HasAction(actions, "Idle")
              THEN PlayAnimation(mixer, actions,
                       PlayAnimation(mixer, actions, St, "Walk stop"), "Idle")
              ELSE St
    ELSE St

\* animate() advancing the physics world before it polls the input
AnimateCallsPhysicsFirst ==
    <<"requestAnimationFrame", "PhysicsWorld.update">>
    \o (IF ~isSitting /\ ~isAnimating /\ ~isAttacking
        THEN <<"CharacterController.update">> ELSE << >>)
    \o (IF mixer THEN <<"mixer.update">> ELSE << >>)
    \o <<"render">>

\* animate() blocking the movement during a jump as well
AnimateCallsBlockedInJump ==
    <<"requestAnimationFrame">>
    \o (IF ~isSitting /\ ~isAnimating /\ ~isAttacking /\ ~isJumping
        THEN <<"CharacterController.update">> ELSE << >>)
    \o <<"PhysicsWorld.update">>
    \o (IF mixer THEN <<"mixer.update">> ELSE << >>)
    \o <<"render">>

\* animate() giving up after the re-evaluation when the clip of its
\* transition ('Walk Start' or 'Walk stop') is missing
AnimateCallsAbortOnMissingClip ==
    <<"requestAnimationFrame">>
    \o (IF ~isSitting /\ ~isAnimating /\ ~isAttacking
        THEN <<"CharacterController.update">> ELSE << >>)
    \o <<"PhysicsWorld.update">>
    \o (IF HasAction(actions, "Walk Start") /\ HasAction(actions, "Walk stop")
        THEN (IF mixer THEN <<"mixer.update">> ELSE << >>) \o <<"render">>
        ELSE << >>)

\* the calls animate() makes on its collaborators, in order
AnimateCalls ==
    <<"requestAnimationFrame">>
    \o (IF ~isSitting /\ ~isAnimating /\ ~isAttacking
        THEN <<"CharacterController.update">> ELSE << >>)
    \o <<"PhysicsWorld.update">>
    \o (IF mixer THEN <<"mixer.update">> ELSE << >>)
    \o <<"render">>

\* the body of animate(): the jump arc, the re-evaluation and the calls
AnimateBody ==
    LET st == Reevaluate(JumpArc)
    IN  /\ isJumping' = JumpArc
        /\ currentActionName' = st.cur
        /\ last' = [ObserveSt("animate", TRUE, st, 0) EXCEPT
                       !.calls = AnimateCalls]
        /\ UNCHANGED <<keys, mixer, actions, isSitting, isAnimating, isAttacking,
                       jumpRemaining, timers, loadState>>

\* the camera follow lifting the camera to the body's height as well
CameraFollowWithHeight(cam, body) ==
    IF body = NoBody THEN cam
    ELSE [cam EXCEPT !.x = body.position.x,
                     !.y = body.position.y,
                     !.z = body.position.z + CameraDistance]

\* the camera follow of animate(): getPosition() is null with no body
CameraFollow(cam, body) ==
    IF body = NoBody THEN cam
    ELSE [cam EXCEPT !.x = body.position.x,
                     !.z = body.position.z + CameraDistance]

\* what animate() does to the body, the heading and the camera: update(keys)
\* unless movement is blocked, the step of the physics world (leaving the
\* body with h, v and p), the heading of the visual and the camera follow
AnimatePhysics(h, v, p) ==
    LET moved == IF ~isSitting /\ ~isAnimating /\ ~isAttacking
                 THEN UpdateBody(characterBody, keys)
                 ELSE characterBody
        stepped == StepBody(moved, h, v, p)
    IN  /\ characterBody' = stepped
        /\ lastAngle' = IF stepped # NoBody
                        THEN ComputeRotationForVisual(stepped, lastAngle).stored
                        ELSE lastAngle
        /\ camera' = CameraFollow(camera, stepped)

\* the requestAnimationFrame callback
Animate ==
    /\ frame = "scheduled"
    /\ frame' = "scheduled"
    /\ AnimateBody
    /\ IF characterBody = NoBody
       THEN UNCHANGED bodyVars
       ELSE \E h \in HorizontalVelocities, v \in VerticalVelocities,
               p \in Positions : AnimatePhysics(h, v, p)

\* stop()
Stop ==
    /\ frame = "scheduled"
    /\ frame' = "cancelled"
    /\ last' = Observe("stop", TRUE, << >>, 0, 0)
    /\ UNCHANGED <<keys, mixer, actions, currentActionName, flags, jumpRemaining,
                   timers, loadState, bodyVars>>

---------------------------------------------------------------------------
(* Timers and time *)

\* the event loop runs the first pending callback once its delay has elapsed
FireTimer ==
    /\ timers # << >>
    /\ Head(timers).remaining = 0
    /\ timers' = Tail(timers)
    /\ \/ /\ Head(timers).kind = "sit"
          /\ SitTimerCallback(Head(timers))
       \/ /\ Head(timers).kind = "jump"
          /\ JumpTimerCallback(Head(timers))
       \/ /\ Head(timers).kind = "attack"
          /\ AttackTimerCallback(Head(timers))
    /\ UNCHANGED <<keys, mixer, actions, loadState, frame, bodyVars>>

\* half a second passes
AdvanceTime ==
    /\ jumpRemaining > 0 \/ \E i \in DOMAIN timers : timers[i].remaining > 0
    /\ timers' = [i \in DOMAIN timers |->
                    [timers[i] EXCEPT !.remaining = Max(@ - 1, 0)]]
    /\ jumpRemaining' = Max(jumpRemaining - 1, 0)
    /\ last' = Observe("time", TRUE, << >>, 0, 0)
    /\ UNCHANGED <<keys, mixer, actions, currentActionName, flags, loadState, frame,
                   bodyVars>>

---------------------------------------------------------------------------
(* Click *)

\* the hit lists of a ray: up to MaxHits different objects, nearest first
HitLists ==
    {h \in UNION {[1..n -> SceneObjects] : n \in 0..MaxHits} :
        \A i, j \in DOMAIN h : i # j => h[i] # h[j]}

\* onClick without its isAnimating check
ClickBlockedNoAnimCheck == ~isSitting
\* the early returns of onClick
ClickBlocked == isAnimating \/ ~isSitting

\* onClick standing the character up when the click hits nothing
OnClickLeavesSeat(hits) ==
    /\ last' = IF ClickBlocked
               THEN [Observe("click", FALSE, << >>, 0, 0) EXCEPT !.hits = hits]
               ELSE [Observe("click", TRUE, << >>, 0, 0) EXCEPT
                        !.hits = hits,
                        !.interact = IF Len(hits) > 0 THEN <<hits[1]>> ELSE << >>]
    /\ isSitting' = IF ~ClickBlocked /\ Len(hits) = 0 THEN FALSE ELSE isSitting
    /\ UNCHANGED <<keys, mixer, actions, currentActionName, isAnimating,
                   isJumping, isAttacking, jumpRemaining, timers, loadState,
                   frame, bodyVars>>

\* a click with the objects under the pointer, nearest first
OnClick(hits) ==
    /\ last' = IF ClickBlocked
               THEN [Observe("click", FALSE, << >>, 0, 0) EXCEPT !.hits = hits]
               ELSE [Observe("click", TRUE, << >>, 0, 0) EXCEPT
                        !.hits = hits,
                        !.interact = IF Len(hits) > 0 THEN <<hits[1]>> ELSE << >>]
    /\ UNCHANGED <<keys, mixer, actions, currentActionName, flags, jumpRemaining,
                   timers, loadState, frame, bodyVars>>

---------------------------------------------------------------------------

Next ==
    \/ \E code \in KeyCodes : OnKeyDown(code)
    \/ \E code \in MoveKeys : OnKeyUp(code)
    \/ \E clips \in ClipLists : LoadCharacterSuccess(clips)
    \/ LoadCharacterError
    \/ Animate
    \/ Stop
    \/ FireTimer
    \/ AdvanceTime
    \/ \E hits \in HitLists : OnClick(hits)

Spec == Init /\ [][Next]_vars

\* scheduled timers eventually fire and time passes
FairSpec == Spec /\ WF_vars(FireTimer) /\ WF_vars(AdvanceTime)

---------------------------------------------------------------------------
(* The calls of CharacterController's methods, one at a time              *)

\* a call of jump(), the ground probe answering hasHit
Jump(hasHit) ==
    /\ characterBody' = JumpBody(characterBody, hasHit)
    /\ last' = [op |-> "jump", hasHit |-> hasHit]
    /\ UNCHANGED <<sceneVars, lastAngle, camera>>

\* setCharacterBody(body)
SetCharacterBody(body) ==
    /\ characterBody' = body
    /\ last' = [op |-> "setCharacterBody"]
    /\ UNCHANGED <<sceneVars, lastAngle, camera>>

\* a call of update(keys) with the keys ks held
Update(ks) ==
    /\ characterBody' = UpdateBody(characterBody, ks)
    /\ last' = [op |-> "update", keys |-> ks]
    /\ UNCHANGED <<sceneVars, lastAngle, camera>>

\* a call of computeRotationForVisual()
RotationForVisual ==
    LET r == ComputeRotationForVisual(characterBody, lastAngle)
    IN  /\ lastAngle' = r.stored
        /\ last' = [op |-> "computeRotationForVisual", angle |-> r.angle]
        /\ UNCHANGED <<sceneVars, characterBody, camera>>

\* PhysicsWorld.update(dt) stepping the world the body is in
PhysicsStep(h, v, p) ==
    /\ characterBody # NoBody
    /\ characterBody.world
    /\ characterBody' = StepBody(characterBody, h, v, p)
    /\ last' = [op |-> "step"]
    /\ UNCHANGED <<sceneVars, lastAngle, camera>>

\* the controller with no body or with any body installed
CtlInit ==
    /\ SceneInit
    /\ characterBody \in Bodies \cup {NoBody}
    /\ lastAngle = 0
    /\ camera = CameraStart

CtlNext ==
    \/ \E hasHit \in BOOLEAN : Jump(hasHit)
    \/ \E body \in Bodies : SetCharacterBody(body)
    \/ \E ks \in SUBSET MoveKeys : Update(ks)
    \/ RotationForVisual
    \/ \E h \in HorizontalVelocities, v \in VerticalVelocities,
          p \in Positions : PhysicsStep(h, v, p)

\* the controller under any sequence of calls
CtlSpec == CtlInit /\ [][CtlNext]_vars

---------------------------------------------------------------------------
(* The frame loop with a body: the scene as a key press has just left it,  *)
(* before the first tick after the load, and the ticks and movement keys   *)
(* that follow                                                             *)

\* the action table of the asset with every clip
FullTable == Append(AllClips, "PartialIdleJump")

\* the body createCharacterBody(0, 1, 0) has added to the world
CreatedBody ==
    [vx |-> 0, vy |-> 0, vz |-> 0, world |-> TRUE,
     position |-> [x |-> 0, y |-> 1, z |-> 0], commanded |-> <<0, 0>>]

\* the scene after a load of every clip and, from there, after no key
\* press, a sit-toggle, a sit-toggle and its timer, a jump or an attack
LoadedIn(mode) ==
    /\ keys = {}
    /\ mixer = TRUE
    /\ actions = FullTable
    /\ loadState = "loaded"
    /\ frame = "scheduled"
    /\ isSitting = (mode = "Seated")
    /\ isAnimating = (mode = "SitTransition")
    /\ isJumping = (mode = "Jumping")
    /\ isAttacking = (mode = "Attacking")
    /\ currentActionName =
          CASE mode = "Locomoting" -> "Idle"
            [] mode = "SitTransition" -> "Sit down"
            [] mode = "Seated" -> "Sit down"
            [] mode = "Jumping" -> "PartialIdleJump"
            [] mode = "Attacking" -> "Attack"
    /\ timers =
          CASE mode = "SitTransition" -> <<Timer("sit", TRUE, SitDownUnits)>>
            [] mode = "Jumping" ->
                  <<Timer("jump", FALSE, JumpClipUnits - JumpTrimUnits)>>
            [] mode = "Attacking" -> <<Timer("attack", FALSE, AttackClipUnits)>>
            [] OTHER -> << >>
    /\ jumpRemaining = IF mode = "Jumping"
                       THEN Max(JumpClipUnits - JumpTrimUnits, 0)
                       ELSE 0
    /\ last = Observe("init", FALSE, << >>, 0, 0)
    /\ characterBody = CreatedBody
    /\ lastAngle = 0
    /\ camera = CameraStart

FrameInit ==
    \/ Init
    \/ \E mode \in {"Locomoting", "SitTransition", "Seated", "Jumping",
                    "Attacking"} : LoadedIn(mode)

FrameNext ==
    \/ Animate
    \/ \E code \in MoveKeys \cap KeyCodes : OnKeyDown(code)
    \/ \E code \in MoveKeys : OnKeyUp(code)

\* the ticks of a scene whose mode stays as the last key press left it
FrameSpec == FrameInit /\ [][FrameNext]_vars

---------------------------------------------------------------------------
(* The ticks of a loaded scene whose modes the keys enter: the movement,   *)
(* sit-toggle and attack keys and the frame ticks, before any timer fires   *)

BlockingInit == LoadedIn("Locomoting")

BlockingNext ==
    \/ Animate
    \/ \E code \in KeyCodes \ {"Space"} : OnKeyDown(code)
    \/ \E code \in MoveKeys : OnKeyUp(code)

BlockingSpec == BlockingInit /\ [][BlockingNext]_vars

---------------------------------------------------------------------------
(* The physics-impulse variant of the scene (src/unnamed/part_001): its    *)
(* handleJump calls CharacterController.jump(), its handleAttack has no    *)
(* isAnimating check and its animate() has no jump arc; the rest is the    *)
(* scene above                                                             *)

\* the first early return of the variant's handleJump
ImpulseJumpBlocked == isSitting \/ isJumping \/ isAttacking \/ isAnimating

\* the variant's handleJump, the ground probe of jump() answering hasHit
ImpulseHandleJump(hasHit) ==
    IF ImpulseJumpBlocked
    THEN /\ last' = Observe("Space", FALSE, << >>, 0, 0)
         /\ UNCHANGED <<flags, currentActionName, jumpRemaining, timers,
                        characterBody>>
    ELSE /\ characterBody' = JumpBody(characterBody, hasHit)
         /\ IF ~HasAction(actions, "PartialIdleJump")
            THEN /\ last' = Observe("Space", FALSE, << >>, 0, 1)
                 /\ UNCHANGED <<flags, currentActionName, jumpRemaining, timers>>
            ELSE /\ CanSchedule
                 /\ isJumping' = TRUE
                 /\ currentActionName' = "PartialIdleJump"
                 /\ timers' = InsertTimer(timers,
                                 Timer("jump", FALSE,
                                       JumpClipUnits - JumpTrimUnits))
                 /\ last' = [Observe("Space", TRUE, <<"PartialIdleJump">>, 1, 1)
                                EXCEPT !.faded =
                                    FadeOut(actions, currentActionName)]
                 /\ UNCHANGED <<isSitting, isAnimating, isAttacking,
                                jumpRemaining>>

\* the early returns of the variant's handleAttack
ImpulseAttackBlocked == isSitting \/ isJumping \/ isAttacking

\* the variant's handleAttack
ImpulseHandleAttack ==
    IF ImpulseAttackBlocked \/ ~HasAction(actions, "Attack")
    THEN /\ last' = Observe("KeyE", FALSE, << >>, 0, 0)
         /\ UNCHANGED <<flags, currentActionName, jumpRemaining, timers>>
    ELSE /\ CanSchedule
         /\ isAttacking' = TRUE
         /\ currentActionName' = "Attack"
         /\ timers' = InsertTimer(timers, Timer("attack", FALSE, AttackClipUnits))
         /\ last' = [Observe("KeyE", TRUE, <<"Attack">>, 1, 0) EXCEPT
                        !.faded = FadeOut(actions, currentActionName)]
         /\ UNCHANGED <<isSitting, isAnimating, isJumping, jumpRemaining>>

\* the variant's onKeyDown
ImpulseOnKeyDown(code, hasHit) ==
    /\ keys' = IF code \in MoveKeys THEN keys \cup {code} ELSE keys
    /\ CASE code = "KeyQ"  -> HandleSitToggle /\ UNCHANGED characterBody
         [] code = "Space" -> ImpulseHandleJump(hasHit)
         [] code = "KeyE"  -> ImpulseHandleAttack /\ UNCHANGED characterBody
         [] OTHER -> /\ last' = Observe(code, TRUE, << >>, 0, 0)
                     /\ UNCHANGED <<flags, currentActionName, jumpRemaining,
                                    timers, characterBody>>
    /\ UNCHANGED <<mixer, actions, loadState, frame, lastAngle, camera>>

\* the variant's requestAnimationFrame callback: no jump arc
ImpulseAnimate ==
    LET st == Reevaluate(isJumping)
    IN  /\ frame = "scheduled"
        /\ frame' = "scheduled"
        /\ currentActionName' = st.cur
        /\ last' = [ObserveSt("animate", TRUE, st, 0) EXCEPT
                       !.calls = AnimateCalls]
        /\ UNCHANGED <<keys, mixer, actions, flags, jumpRemaining, timers,
                       loadState>>
        /\ IF characterBody = NoBody
           THEN UNCHANGED bodyVars
           ELSE \E h \in HorizontalVelocities, v \in VerticalVelocities,
                   p \in Positions : AnimatePhysics(h, v, p)

ImpulseNext ==
    \/ \E code \in KeyCodes, hasHit \in BOOLEAN : ImpulseOnKeyDown(code, hasHit)
    \/ \E code \in MoveKeys : OnKeyUp(code)
    \/ \E clips \in ClipLists : LoadCharacterSuccess(clips)
    \/ LoadCharacterError
    \/ ImpulseAnimate
    \/ Stop
    \/ FireTimer
    \/ AdvanceTime
    \/ \E hits \in HitLists : OnClick(hits)

\* the physics-impulse variant of the scene
ImpulseSpec == Init /\ [][ImpulseNext]_vars

---------------------------------------------------------------------------
(* The modes of the state machine *)

Locomoting == ~isSitting /\ ~isAnimating /\ ~isJumping /\ ~isAttacking
Seated == isSitting /\ ~isAnimating
Machine == <<isSitting, isAnimating, isJumping, isAttacking, currentActionName,
             timers>>

---------------------------------------------------------------------------
(* Claims *)

\* C1: in every reachable state at most one of isAnimating, isJumping and
\* isAttacking is true.
C1_AtMostOneTransient ==
    /\ ~(isAnimating /\ isJumping)
    /\ ~(isAnimating /\ isAttacking)
    /\ ~(isJumping /\ isAttacking)

\* a jump key pressed while the attack is running
C1_Witness == isAttacking /\ last.op = "Space" /\ HasAction(actions, "PartialIdleJump")

\* C2: isSitting changes only in a step of the sit/stand timer whose pre-state
\* has isAnimating true.
C2_SittingChangesOnlyInTransition ==
    [][isSitting' # isSitting => isAnimating /\ last'.op = "sitTimer"]_vars

\* the sit-down timer has fired and set isSitting
C2_Witness == last.op = "sitTimer" /\ isSitting

\* C3: a sit-toggle key press while isAnimating, isJumping or isAttacking is
\* true changes no flag, not the current action and no timer, and plays nothing.
C3_SitToggleRejected ==
    [][(last'.op = "KeyQ" /\ (isAnimating \/ isJumping \/ isAttacking))
          => /\ UNCHANGED Machine
             /\ last'.played = << >>
             /\ last'.scheduled = 0]_vars

\* a stand-up request during the sit-down transition
C3_Witness ==
    /\ last.op = "KeyQ"
    /\ ~last.accepted
    /\ isAnimating
    /\ ~isSitting
    /\ \E i \in DOMAIN timers : timers[i].kind = "sit" /\ timers[i].remaining > 0

\* C4: a jump key press while isSitting, isAnimating, isJumping or isAttacking
\* is true changes no flag, not the current action and no timer, and plays
\* nothing.
C4_JumpRejected ==
    [][(last'.op = "Space" /\ (isSitting \/ isAnimating \/ isJumping \/ isAttacking))
          => /\ UNCHANGED Machine
             /\ last'.played = << >>
             /\ last'.scheduled = 0
             /\ last'.jumpCalls = 0]_vars

\* a jump key pressed while seated, the jump clip being loaded
C4_Witness ==
    last.op = "Space" /\ Seated /\ HasAction(actions, "PartialIdleJump")

\* C5: an attack key press while isSitting, isAnimating, isJumping or
\* isAttacking is true changes no flag, not the current action and no timer,
\* and plays nothing.
C5_AttackRejected ==
    [][(last'.op = "KeyE" /\ (isSitting \/ isAnimating \/ isJumping \/ isAttacking))
          => /\ UNCHANGED Machine
             /\ last'.played = << >>
             /\ last'.scheduled = 0]_vars

\* an attack key pressed during a sit/stand transition, the attack clip being
\* loaded
C5_Witness == last.op = "KeyE" /\ isAnimating /\ HasAction(actions, "Attack")

\* C6: with the assets loaded ('Sit down' in the action table), a sit-toggle
\* in Locomoting sets isAnimating with isSitting still false, plays 'Sit down'
\* and schedules the 2.0 s timer; jump and attack presses in that window
\* change nothing; the timer's firing leaves the machine Seated and plays
\* nothing.
C6_SitDownScenario ==
    [][/\ (Locomoting /\ mixer /\ HasAction(actions, "Sit down") /\ last'.op = "KeyQ")
          => /\ isAnimating' /\ ~isSitting' /\ ~isJumping' /\ ~isAttacking'
             /\ currentActionName' = "Sit down"
             /\ last'.played = <<"Sit down">>
             /\ Len(timers') = Len(timers) + 1
             /\ \E i \in DOMAIN timers' :
                    timers'[i] = [kind |-> "sit", willSit |-> TRUE,
                                  remaining |-> SitDownUnits]
       /\ (isAnimating /\ ~isSitting /\ last'.op \in {"Space", "KeyE"})
          => UNCHANGED Machine /\ last'.played = << >>
       /\ (isAnimating /\ ~isSitting /\ last'.op = "sitTimer")
          => /\ isSitting' /\ ~isAnimating' /\ ~isJumping' /\ ~isAttacking'
             /\ last'.played = << >>
             /\ currentActionName' = currentActionName]_vars

\* the sit-down timer has fired after a sit-down that played 'Sit down'
C6_Witness ==
    /\ last.op = "sitTimer"
    /\ Seated
    /\ mixer
    /\ currentActionName = "Sit down"

\* C7: a sit-toggle in Seated sets isAnimating, keeps isSitting, plays 'Sit up'
\* (when loaded) and schedules the 1.0 s timer; the timer's firing leaves the
\* machine in Locomoting and, if an Idle clip exists, with Idle as the
\* current action.
C7_StandUpScenario ==
    [][/\ (Seated /\ last'.op = "KeyQ")
          => /\ isAnimating' /\ isSitting' /\ ~isJumping' /\ ~isAttacking'
             /\ (mixer /\ HasAction(actions, "Sit up"))
                    => /\ currentActionName' = "Sit up"
                       /\ last'.played = <<"Sit up">>
             /\ Len(timers') = Len(timers) + 1
             /\ \E i \in DOMAIN timers' :
                    timers'[i] = [kind |-> "sit", willSit |-> FALSE,
                                  remaining |-> SitUpUnits]
       /\ (isAnimating /\ isSitting /\ last'.op = "sitTimer")
          => /\ ~isSitting' /\ ~isAnimating' /\ ~isJumping' /\ ~isAttacking'
             /\ HasAction(actions, "Idle")
                    => /\ currentActionName' = "Idle"
                       /\ last'.played = <<"Idle">>]_vars

\* the stand-up timer has fired and played Idle
C7_Witness ==
    /\ last.op = "sitTimer"
    /\ Locomoting
    /\ last.played = <<"Idle">>
    /\ currentActionName = "Idle"

\* C8: under FairSpec (scheduled timers fire, time passes) each transient
\* flag that is true is eventually false again.
C8_TransientModesExit ==
    /\ isAnimating ~> ~isAnimating
    /\ isJumping ~> ~isJumping
    /\ isAttacking ~> ~isAttacking

\* the attack timer has fired and cleared isAttacking
C8_Witness == last.op = "attackTimer" /\ ~isAttacking

\* C9: in Seated, only an accepted sit-toggle changes isSitting or
\* isAnimating, and it sets isAnimating with isSitting still true.
C9_SeatedLeftOnlyBySitToggle ==
    [][(Seated /\ (isSitting' # isSitting \/ isAnimating' # isAnimating))
          => /\ last'.op = "KeyQ"
             /\ last'.accepted
             /\ isAnimating'
             /\ isSitting']_vars

\* a frame tick with the character seated and the assets loaded
C9_Witness == Seated /\ mixer /\ last.op = "animate"

\* C10: every accepted jump key press (the one that sets isJumping) calls
\* CharacterController.jump() exactly once.
C10_JumpImpulseOnce ==
    (last.op = "Space" /\ last.accepted) => last.jumpCalls = 1

\* C11: jump() sets the body's vertical velocity to 10 if and only if the
\* ground probe reports a hit at the call; with no hit, or with no body, the
\* body is unchanged.
C11_JumpOnlyWhenGrounded ==
    [][last'.op = "jump"
          => IF characterBody # NoBody /\ characterBody.world /\ last'.hasHit
             THEN characterBody' =
                      [characterBody EXCEPT !.vy = JumpSpeed * Hundredths]
             ELSE characterBody' = characterBody]_vars

\* a jump requested in the air while the body is moving up
C11_Witness ==
    /\ last.op = "jump"
    /\ ~last.hasHit
    /\ characterBody # NoBody
    /\ characterBody.world
    /\ characterBody.vy = 5 * Hundredths

\* C12: playAnimation(name) with a name that has no entry in the action table
\* returns normally, leaves currentActionName as it is, starts no clip and
\* fades no action out; it writes no mode flag (its state is [cur, played,
\* faded] only).
C12_UnknownClipIsNoOp ==
    \A name \in AnimationNames :
        ~HasAction(actions, name)
            => PlayAnimation(mixer, actions, St, name) = St
\* a sit-down started while an action plays and 'Sit down' is missing
C12_Witness ==
    /\ last.op = "KeyQ" /\ last.accepted
    /\ mixer /\ ~HasAction(actions, "Sit down")
    /\ currentActionName = "Idle" /\ HasAction(actions, "Idle")
    /\ last.played = << >> /\ last.faded = << >>

\* C13: a click calls onObjectInteract only in Seated: never while isSitting
\* is false or isAnimating is true; in Seated exactly once, with the name of
\* the first hit, when the hit list is non-empty, and not at all when it is
\* empty.
C13_ClickOnlyWhenSeated ==
    [][last'.op = "click"
          => last'.interact =
                IF isSitting /\ ~isAnimating /\ Len(last'.hits) > 0
                THEN <<last'.hits[1]>>
                ELSE << >>]_vars
\* a click in Seated on two objects, one behind the other
C13_Witness ==
    /\ last.op = "click"
    /\ isSitting /\ ~isAnimating
    /\ last.hits = <<"GithubCube", "ResumeCube">>
    /\ last.interact = <<"GithubCube">>

\* C14: until the load has completed, and forever after a failed load, the
\* sit-toggle, jump and attack key presses are ignored: the four mode flags
\* and currentActionName keep their initial values, also after a later timer.
C14_InputsIgnoredBeforeLoad ==
    loadState # "loaded"
        => /\ ~isSitting /\ ~isAnimating /\ ~isJumping /\ ~isAttacking
           /\ currentActionName = Null

\* C15: a sit-toggle, jump or attack key press that passes its guards in
\* Locomoting while its clip is missing from the action table still sets its
\* mode flag (isAnimating, isJumping, isAttacking).
C15_MissingClipStillEntersMode ==
    [][Locomoting
          => /\ (last'.op = "KeyQ" /\ ~HasAction(actions, "Sit down"))
                    => isAnimating'
             /\ (last'.op = "Space" /\ ~HasAction(actions, "PartialIdleJump"))
                    => isJumping'
             /\ (last'.op = "KeyE" /\ ~HasAction(actions, "Attack"))
                    => isAttacking']_vars

\* C16: after stop() no sit, jump or attack timer that was pending at the
\* teardown runs its callback.  A callback that runs as the very next step
\* after stop() belongs to a timer that was pending at the teardown.
C16_NoTimerAfterStop ==
    [][last.op = "stop"
          => last'.op \notin {"sitTimer", "jumpTimer", "attackTimer"}]_vars

\* the pending timers of one kind
PendingOf(kind) == {i \in DOMAIN timers : timers[i].kind = kind}

\* C17: at every moment each exclusive action has at most one pending timer:
\* at most one sit/stand timer, one jump timer and one attack timer.
C17_OneTimerPerAction ==
    \A kind \in {"sit", "jump", "attack"} : Cardinality(PendingOf(kind)) <= 1

\* C18: each revert timer takes effect only in the mode that scheduled it: a
\* jump timer fires only while isJumping, an attack timer only while
\* isAttacking, a sit/stand timer only while isAnimating.
C18_TimerFiresInItsMode ==
    [][/\ last'.op = "jumpTimer" => isJumping
       /\ last'.op = "attackTimer" => isAttacking
       /\ last'.op = "sitTimer" => isAnimating]_vars

\* C19: the frame tick only reads the mode flags: no tick changes isSitting,
\* isAnimating, isJumping or isAttacking.
C19_TickKeepsFlags ==
    [][last'.op = "animate" => UNCHANGED flags]_vars

\* the positions of a call in the calls of the last step
CallsOf(name) == {i \in DOMAIN last.calls : last.calls[i] = name}

C22_ReevaluationOnlyInLocomoting ==
    [][last'.op = "animate"
          => currentActionName' =
                IF Locomoting' /\ IsMoving /\ currentActionName # "Walk"
                      /\ HasAction(actions, "Walk")
                THEN "Walk"
                ELSE IF Locomoting' /\ ~IsMoving /\ currentActionName # "Idle"
                           /\ HasAction(actions, "Idle")
                THEN "Idle"
                ELSE currentActionName]_vars
\* a tick with a movement key held that starts 'Walk' after 'Walk Start'
C22_Witness ==
    /\ last.op = "animate"
    /\ Locomoting /\ IsMoving
    /\ last.played = <<"Walk Start", "Walk">>
    /\ currentActionName = "Walk"

\* C23 as claimed: a successful load starts 'Idle' if the action table has it,
\* otherwise the lexicographically first name of the table, otherwise nothing
\* (currentActionName stays null).
C23_InitialActionLexFirst ==
    LET order == <<"Attack", "Idle", "Idle Jump", "PartialIdleJump",
                   "Sit down", "Sit up", "Walk", "Walk Start", "Walk stop">>
        rank(name) == CHOOSE i \in DOMAIN order : order[i] = name
        lexFirst == CHOOSE i \in DOMAIN actions :
                        \A j \in DOMAIN actions :
                            rank(actions[i]) <= rank(actions[j])
    IN  last.op = "load"
            => currentActionName =
                  IF HasAction(actions, "Idle") THEN "Idle"
                  ELSE IF actions # << >> THEN actions[lexFirst]
                  ELSE Null

\* C23 as amended: a successful load starts 'Idle' if the action table has it,
\* otherwise the first name of the table, which is the first clip the loader
\* listed, otherwise nothing (currentActionName stays null).
C23_InitialActionFirstListed ==
    [][last'.op = "load"
          => currentActionName' =
                IF HasAction(actions', "Idle") THEN "Idle"
                ELSE IF actions' # << >> THEN actions'[1]
                ELSE Null]_vars
\* a load of an asset without an Idle clip, whose first clip is 'Walk'
C23_Witness ==
    /\ last.op = "load"
    /\ ~HasAction(actions, "Idle") /\ HasAction(actions, "Attack")
    /\ currentActionName = "Walk"
    /\ last.played = <<"Walk">>

\* the steps that start their clips through playAnimation
PlayAnimationOps ==
    {"KeyQ", "sitTimer", "jumpTimer", "attackTimer", "load", "animate"}

\* C24 as claimed: playAnimation starts 'Sit down' and 'Sit up' with loop mode
\* Once and clamp-on-finish, and every other clip with loop mode Repeat and no
\* clamp.
C24_BothSitClipsClamp ==
    last.op \in PlayAnimationOps
        => \A i \in DOMAIN last.played :
              last.loops[i] = IF last.played[i] \in {"Sit down", "Sit up"}
                              THEN "LoopOnce+clamp" ELSE "LoopRepeat"

\* C24 as amended: playAnimation starts 'Sit down' with loop mode Once and
\* clamp-on-finish, and every other clip, 'Sit up' included, with loop mode
\* Repeat and no clamp.
C24_OnlySitDownClamps ==
    last.op \in PlayAnimationOps
        => /\ DOMAIN last.loops = DOMAIN last.played
           /\ \A i \in DOMAIN last.played :
                 last.loops[i] = IF last.played[i] = "Sit down"
                                 THEN "LoopOnce+clamp" ELSE "LoopRepeat"
\* a sit-down that started 'Sit down'
C24_Witness ==
    /\ last.op = "KeyQ" /\ last.accepted
    /\ last.played = <<"Sit down">>
    /\ last.loops = <<"LoopOnce+clamp">>

\* 1 if the key is held in ks, else 0
Held(ks, key) == IF key \in ks THEN 1 ELSE 0

\* C25: for each of the 16 combinations of the movement keys, update commands
\* vx = 15 * ([KeyD] - [KeyA]) and vz = 15 * ([KeyS] - [KeyW]): no
\* normalisation on diagonals, opposing keys cancelling to 0.
C25_SignedUnitContributions ==
    [][(last'.op = "update" /\ characterBody # NoBody)
          => /\ characterBody'.vx = Speed * Hundredths
                    * (Held(last'.keys, "KeyD") - Held(last'.keys, "KeyA"))
             /\ characterBody'.vz = Speed * Hundredths
                    * (Held(last'.keys, "KeyS") - Held(last'.keys, "KeyW"))]_vars

\* C26: update never changes the body's vertical velocity, for every key
\* combination and every prior velocity, and changes nothing with no body.
C26_VerticalVelocityPassedThrough ==
    [][last'.op = "update"
          => IF characterBody = NoBody
             THEN characterBody' = NoBody
             ELSE /\ characterBody' # NoBody
                  /\ characterBody'.vy = characterBody.vy]_vars
\* an update of a falling body with a diagonal held
C26_Witness ==
    /\ last.op = "update"
    /\ last.keys = {"KeyW", "KeyD"}
    /\ characterBody # NoBody
    /\ characterBody.vy = -5 * Hundredths
    /\ characterBody.vx = Speed * Hundredths

\* no body, or a body whose squared horizontal speed is below 0.001 (10
\* squares of hundredths)
NearlyStationary ==
    \/ characterBody = NoBody
    \/ characterBody.vx * characterBody.vx
          + characterBody.vz * characterBody.vz < 10

\* C27: computeRotationForVisual called while the body is nearly stationary,
\* or with no body, returns the stored angle and leaves it unchanged; called
\* at a higher speed it stores the angle it returns; nothing else changes the
\* stored angle, which starts at 0.  The stored angle is therefore the angle
\* of the last call made at a squared speed of 0.001 or more.
C27_HeadingRetainedAtRest ==
    [][/\ last'.op = "computeRotationForVisual"
            => IF NearlyStationary
               THEN last'.angle = lastAngle /\ lastAngle' = lastAngle
               ELSE lastAngle' = last'.angle
       /\ lastAngle' # lastAngle
            => last'.op = "computeRotationForVisual" /\ ~NearlyStationary]_vars
\* a call at 0.03 units per second after the character has moved: the
\* heading of the movement is returned
C27_Witness ==
    /\ last.op = "computeRotationForVisual"
    /\ characterBody # NoBody
    /\ characterBody.vx = 3 /\ characterBody.vz = 0
    /\ lastAngle = 180
    /\ last.angle = 180

C29_TickAlwaysCompletes ==
    last.op = "animate"
        => /\ frame = "scheduled"
           /\ Cardinality(CallsOf("requestAnimationFrame")) = 1
           /\ Cardinality(CallsOf("PhysicsWorld.update")) = 1
           /\ Cardinality(CallsOf("render")) = 1
           /\ last.calls[Len(last.calls)] = "render"
\* a tick of the re-evaluation that asks for the missing clip 'Walk Start'
C29_Witness ==
    /\ last.op = "animate"
    /\ loadState = "loaded"
    /\ ~HasAction(actions, "Walk Start")
    /\ last.played = <<"Walk">>
    /\ CallsOf("render") # {}

\* C30: a click never changes the character state: for every state and every
\* hit list onClick leaves the four mode flags and currentActionName as they
\* are and schedules no timer.
C30_ClickIsPureQuery ==
    [][last'.op = "click"
          => /\ UNCHANGED <<isSitting, isAnimating, isJumping, isAttacking>>
             /\ currentActionName' = currentActionName
             /\ timers' = timers
             /\ last'.scheduled = 0]_vars
\* a click in Seated that reached the callback
C30_Witness ==
    /\ last.op = "click" /\ last.accepted
    /\ last.interact = <<"ResumeCube">>
    /\ isSitting
    /\ currentActionName = "Sit down"

\* C31: in the physics-impulse variant an attack key press during the
\* sit-down transition is rejected, so that isAnimating and isAttacking are
\* never true together.
C31_ImpulseNoAttackInSitTransition ==
    (isAnimating /\ ~isSitting /\ \E i \in PendingOf("sit") : timers[i].willSit)
        => ~isAttacking /\ (last.op = "KeyE" => ~last.accepted)

\* C32: in the physics-impulse variant a jump key press that requests the
\* impulse (calls CharacterController.jump()) leaves isJumping true and has
\* scheduled the jump timer.
C32_ImpulseOnlyIntoJumping ==
    (loadState = "loaded" /\ last.op = "Space" /\ last.jumpCalls > 0)
        => isJumping /\ last.scheduled = 1

\* all the clips the scene looks up by name are in the table
AllClipsLoaded ==
    /\ loadState = "loaded"
    /\ \A i \in DOMAIN AllClips : HasAction(actions, AllClips[i])

\* the visible action is the clip of the active transient mode
ActionAgreesWithMode ==
    /\ isAttacking => currentActionName = "Attack"
    /\ isJumping => currentActionName = "PartialIdleJump"
    /\ isAnimating => currentActionName \in {"Sit down", "Sit up"}

\* C33: after a load with all clips present the visible action agrees with
\* the active transient mode (isAttacking implies 'Attack', isJumping implies
\* 'PartialIdleJump', isAnimating implies 'Sit down' or 'Sit up'): no timer
\* and no frame tick takes a state where they agree to one where they do not.
C33_ActionAgreesWithMode ==
    [][(/\ AllClipsLoaded
        /\ ActionAgreesWithMode
        /\ last'.op \in {"sitTimer", "jumpTimer", "attackTimer", "animate"})
          => ActionAgreesWithMode']_vars

\* a sit-down is under way or complete: its timer is pending, or Seated
InSitDown ==
    \/ /\ isAnimating
       /\ ~isSitting
       /\ \E i \in PendingOf("sit") : timers[i].willSit
    \/ Seated

\* C34: from the start of a sit-down that plays 'Sit down' and for as long
\* as the character is Seated, currentActionName is 'Sit down': no frame
\* tick, timer firing, key press or click switches it to another clip.
C34_SeatedShowsSitDown ==
    [][(/\ InSitDown
        /\ currentActionName = "Sit down"
        /\ InSitDown')
          => currentActionName' = "Sit down"]_vars

\* movement is blocked: animate() skips characterController.update(keys)
MovementBlocked == isSitting \/ isAnimating \/ isAttacking

\* C35: in every frame tick that occurs while isSitting, isAnimating or
\* isAttacking is true, the horizontal velocity last commanded to the
\* character body is zero.
C35_BlockedMeansStopped ==
    (last.op = "animate" /\ MovementBlocked /\ characterBody # NoBody)
        => characterBody.commanded = <<0, 0>>

\* the steps the host's input events take: key-down, key-up and click
InputOps == KeyCodes \cup {"keyup", "click"}

\* C36: after stop() the (loaded) scene is inert to input: no key-down,
\* key-up or click changes a mode flag or currentActionName, schedules a timer or
\* invokes onObjectInteract, and no further frame tick runs.
C36_InertAfterStop ==
    [][(frame = "cancelled" /\ loadState = "loaded") =>
          /\ last'.op # "animate"
          /\ last'.op \in InputOps =>
                /\ UNCHANGED <<flags, currentActionName>>
                /\ last'.scheduled = 0
                /\ last'.interact = << >>]_vars

====
